---- MODULE Spec2Model ----
(***************************************************************************)
(* ROXAF client/stocklot matching (src/ROXAF_V3.0.4.py).                   *)
(*                                                                         *)
(* Text is a tuple of one-character strings, so that str.lower() and the   *)
(* substring test `a in b` are computed and not assumed.  A spreadsheet    *)
(* cell is a tagged tuple: Num(n), Str(text) or NaN (an empty cell).  A    *)
(* DataFrame is <<columns, rows>>; None is the empty tuple.                *)
(***************************************************************************)
EXTENDS Integers, Sequences, FiniteSets, TLC

VARIABLES
    df_columns,        \* find_matching_column: the column names scanned
    keywords,          \* find_matching_column: the keyword list
    col_found,         \* find_matching_column: the value returned
    df_stocklot,       \* global: the uploaded stocklot table, or None
    df_client_needs,   \* global: the uploaded client needs table, or None
    client_name,       \* main: the client being processed
    grouped_needs,     \* main: last value of group_client_needs_by_item_family
    df_filtered,       \* main: last value of filter_stocklot_for_client
    classified_needs,  \* main: value of classify_needs_by_priority
    pc,                \* position of the script run
    bucket_pos,        \* index of the bucket visited in classified_needs.items()
    client_pos,        \* index of the client visited in client_names
    files_to_download, \* main (Auto Filter): the (data, file name) pairs accumulated
    download_buttons,  \* st.download_button calls of the run: (column, data, file name)
    visited,           \* history: the (bucket, client) pairs processed by the run
    errors             \* st.error messages of the run, in order

vars == <<df_columns, keywords, col_found, df_stocklot, df_client_needs,
          client_name, grouped_needs, df_filtered, classified_needs, pc,
          bucket_pos, client_pos, files_to_download, download_buttons, visited,
          errors>>

None == <<>>

----------------------------------------------------------------------------
(* Text *)

UpperCase == <<"A","B","C","D","E","F","G","H","I","J","K","L","M",
               "N","O","P","Q","R","S","T","U","V","W","X","Y","Z">>
LowerCase == <<"a","b","c","d","e","f","g","h","i","j","k","l","m",
               "n","o","p","q","r","s","t","u","v","w","x","y","z">>

\* the characters that occur in names and cells, in code-point order
Digits    == <<"0","1","2","3","4","5","6","7","8","9">>
CodeOrder == <<" ", "(", ")", "-", "/">> \o Digits \o UpperCase \o LowerCase
Chars     == {CodeOrder[i] : i \in 1..Len(CodeOrder)}

\* str.lower() on one character
LowerChar ==
    [c \in Chars |->
        IF \E i \in 1..Len(UpperCase) : UpperCase[i] = c
        THEN LowerCase[CHOOSE i \in 1..Len(UpperCase) : UpperCase[i] = c]
        ELSE c]

\* str.lower()
lower(s) == [i \in 1..Len(s) |-> LowerChar[s[i]]]

\* Python's `sub in s` on strings
Contains(sub, s) ==
    \E i \in 0..(Len(s) - Len(sub)) : \A j \in 1..Len(sub) : s[i + j] = sub[j]

----------------------------------------------------------------------------
(* find_matching_column *)

\* the inner loop: some keyword, lower-cased, occurs in the lower-cased name
KeywordHit(col, kws) ==
    \E k \in 1..Len(kws) : Contains(lower(kws[k]), lower(col))

RECURSIVE ScanColumns(_, _, _)
ScanColumns(cols, kws, i) ==
    IF i > Len(cols) THEN None
    ELSE IF KeywordHit(cols[i], kws) THEN cols[i]
    ELSE ScanColumns(cols, kws, i + 1)

\* a plausible slip: the loops nested the other way round (keyword-major)
RECURSIVE ScanKeywords(_, _, _)
ScanKeywords(cols, kws, k) ==
    IF k > Len(kws) THEN None
    ELSE IF \E i \in 1..Len(cols) : Contains(lower(kws[k]), lower(cols[i]))
         THEN cols[CHOOSE i \in 1..Len(cols) :
                      /\ Contains(lower(kws[k]), lower(cols[i]))
                      /\ \A j \in 1..(i - 1) : ~Contains(lower(kws[k]), lower(cols[j]))]
    ELSE ScanKeywords(cols, kws, k + 1)

find_matching_column_keyword_major(cols, kws) == ScanKeywords(cols, kws, 1)

find_matching_column(cols, kws) == ScanColumns(cols, kws, 1)

\* the keyword lists of the five roles
kw_client   == << <<"c", "l", "i", "e", "n", "t">>, <<"c", "u", "s", "t", "o", "m", "e", "r">>, <<"n", "a", "m", "e">> >>
kw_family   == << <<"i", "t", "e", "m", " ", "f", "a", "m", "i", "l", "y">>, <<"f", "a", "m", "i", "l", "y">>, <<"i", "t", "e", "m">> >>
kw_grammage == << <<"g", "r", "a", "m", "m", "a", "g", "e">>, <<"w", "e", "i", "g", "h", "t">>, <<"g", "s", "m">> >>
kw_laize    == << <<"l", "a", "i", "z", "e">>, <<"w", "i", "d", "t", "h">>, <<"s", "i", "z", "e">> >>
kw_priority == << <<"p", "r", "i", "o", "r", "i", "t", "y">>, <<"u", "r", "g", "e", "n", "c", "y">>, <<"i", "m", "p", "o", "r", "t", "a", "n", "c", "e">> >>

----------------------------------------------------------------------------
(* Cells and tables *)

Num(n) == <<"num", n>>
Str(s) == <<"str", s>>
NaN    == <<"nan">>

IsNum(c) == c[1] = "num"
IsStr(c) == c[1] = "str"

\* pandas `==` on a cell and a scalar: an empty cell equals nothing
CellEq(c, v) == c # NaN /\ c = v

DataFrame(columns, rows) == <<columns, rows>>
Columns(df) == df[1]
Rows(df)    == df[2]

\* df[col]: the position of the column named col
ColIndex(df, col) ==
    CHOOSE i \in 1..Len(Columns(df)) :
        /\ Columns(df)[i] = col
        /\ \A j \in 1..(i - 1) : Columns(df)[j] # col

\* `not all([...])`: None and the empty name are both falsy
AllFound(cols) == \A i \in 1..Len(cols) : cols[i] # None

IsDigit(c) == \E i \in 1..Len(Digits) : Digits[i] = c
DigitVal(c) == (CHOOSE i \in 1..Len(Digits) : Digits[i] = c) - 1

RECURSIVE ParseDigits(_)
ParseDigits(s) ==
    IF s = <<>> THEN 0
    ELSE ParseDigits(SubSeq(s, 1, Len(s) - 1)) * 10 + DigitVal(s[Len(s)])

\* pd.to_numeric(..., errors="coerce") on one cell: a number stays, text made
\* of decimal digits is parsed, anything else becomes missing
to_numeric(c) ==
    IF IsNum(c) THEN c
    ELSE IF IsStr(c) /\ c[2] # <<>> /\ \A i \in 1..Len(c[2]) : IsDigit(c[2][i])
         THEN Num(ParseDigits(c[2]))
    ELSE NaN

\* the rank of a character in code-point order
CharOrd(c) == CHOOSE i \in 1..Len(CodeOrder) : CodeOrder[i] = c

\* Python's `a < b` on strings
RECURSIVE StrLess(_, _)
StrLess(a, b) ==
    IF b = <<>> THEN FALSE
    ELSE IF a = <<>> THEN TRUE
    ELSE IF a[1] = b[1] THEN StrLess(Tail(a), Tail(b))
    ELSE CharOrd(a[1]) < CharOrd(b[1])

\* the sorted group keys of groupby (sort=True): text cells in ascending order
RECURSIVE SortedKeys(_)
SortedKeys(S) ==
    IF S = {} THEN <<>>
    ELSE LET m == CHOOSE x \in S : \A y \in S \ {x} : StrLess(x[2], y[2])
         IN <<m>> \o SortedKeys(S \ {m})

\* str.strip()
RECURSIVE Strip(_)
Strip(s) ==
    IF s = <<>> THEN s
    ELSE IF s[1] = " " THEN Strip(Tail(s))
    ELSE IF s[Len(s)] = " " THEN Strip(SubSeq(s, 1, Len(s) - 1))
    ELSE s

\* ' '.join(col).strip() on a two-level column label
JoinLabel(a, b) == Strip(a \o <<" ">> \o b)

\* the 'min' and 'max' aggregations: missing values are skipped
AggMin(cells) ==
    LET S == {cells[i][2] : i \in {j \in 1..Len(cells) : IsNum(cells[j])}}
    IN IF S = {} THEN NaN ELSE Num(CHOOSE x \in S : \A y \in S : x <= y)
AggMax(cells) ==
    LET S == {cells[i][2] : i \in {j \in 1..Len(cells) : IsNum(cells[j])}}
    IN IF S = {} THEN NaN ELSE Num(CHOOSE x \in S : \A y \in S : x >= y)

----------------------------------------------------------------------------
(* group_client_needs_by_item_family *)

\* A call's outcome is <<returned value, st.error messages>>.
Value(outcome)    == outcome[1]
Reported(outcome) == outcome[2]

\* a plausible slip: only the grammage column is checked for missing values
dropna_grammage_only(rows, g, l) ==
    SelectSeq(rows, LAMBDA r : r[g] # NaN)

\* dropna(subset=[grammage_col, laize_col]) on rows whose cells g and l hold
\* the coerced values
dropna(rows, g, l) ==
    SelectSeq(rows, LAMBDA r : r[g] # NaN /\ r[l] # NaN)

group_client_needs_by_item_family(df, name) ==
    LET client_col      == find_matching_column(Columns(df), kw_client)
        item_family_col == find_matching_column(Columns(df), kw_family)
        grammage_col    == find_matching_column(Columns(df), kw_grammage)
        laize_col       == find_matching_column(Columns(df), kw_laize)
    IN
    IF ~AllFound(<<client_col, item_family_col, grammage_col, laize_col>>)
    THEN <<None, <<"Required columns not found in client needs file.">>>>
    ELSE
    LET c == ColIndex(df, client_col)
        f == ColIndex(df, item_family_col)
        g == ColIndex(df, grammage_col)
        l == ColIndex(df, laize_col)
        client_needs == SelectSeq(Rows(df), LAMBDA r : CellEq(r[c], name))
    IN
    IF client_needs = <<>>
    THEN <<None, <<"No needs found for client">>>>
    ELSE
    LET coerced == [i \in 1..Len(client_needs) |->
                       [client_needs[i] EXCEPT ![g] = to_numeric(@),
                                               ![l] = to_numeric(@)]]
        client_needs_cleaned == dropna(coerced, g, l)
        \* groupby drops the rows whose key is missing
        keys == SortedKeys({client_needs_cleaned[i][f] :
                               i \in {j \in 1..Len(client_needs_cleaned) :
                                         client_needs_cleaned[j][f] # NaN}})
        group(k) == SelectSeq(client_needs_cleaned, LAMBDA r : r[f] = k)
        column(rs, x) == [i \in 1..Len(rs) |-> rs[i][x]]
    IN
    << DataFrame(
         << JoinLabel(item_family_col, <<>>),
            JoinLabel(grammage_col, <<"m", "i", "n">>), JoinLabel(grammage_col, <<"m", "a", "x">>),
            JoinLabel(laize_col, <<"m", "i", "n">>),    JoinLabel(laize_col, <<"m", "a", "x">>) >>,
         [i \in 1..Len(keys) |->
            << keys[i],
               AggMin(column(group(keys[i]), g)), AggMax(column(group(keys[i]), g)),
               AggMin(column(group(keys[i]), l)), AggMax(column(group(keys[i]), l)) >>]),
       <<>> >>

----------------------------------------------------------------------------
(* filter_stocklot_for_client *)

\* [col for col in grouped_needs.columns if label in col.lower()]
ColumnsWith(columns, label) ==
    SelectSeq(columns, LAMBDA col : Contains(label, lower(col)))

\* Series.between(left, right): inclusive on both sides, False on a missing
\* value or a missing bound
between(c, left, right) ==
    /\ IsNum(c) /\ IsNum(left) /\ IsNum(right)
    /\ left[2] <= c[2]
    /\ c[2] <= right[2]

\* a plausible slip: the item family is not compared
mask_without_family(family, grammage, laize, item_family, min_grammage, max_grammage, min_laize, max_laize) ==
    /\ between(grammage, min_grammage, max_grammage)
    /\ between(laize, min_laize, max_laize)

\* the boolean mask of one stocklot row for one row of grouped_needs
mask(family, grammage, laize, item_family, min_grammage, max_grammage, min_laize, max_laize) ==
    /\ CellEq(family, item_family)
    /\ between(grammage, min_grammage, max_grammage)
    /\ between(laize, min_laize, max_laize)

RECURSIVE Flatten(_)
Flatten(seqs) == IF seqs = <<>> THEN <<>> ELSE Head(seqs) \o Flatten(Tail(seqs))

\* a plausible slip: an empty list of selections gives an empty table
concat_or_empty(filtered_results, columns) ==
    DataFrame(columns, Flatten(filtered_results))

\* pd.concat(filtered_results, ignore_index=True) if filtered_results else None
concat_or_none(filtered_results, columns) ==
    IF filtered_results # <<>>
    THEN DataFrame(columns, Flatten(filtered_results))
    ELSE None

\* comparing a text cell with a number raises TypeError
ComparisonRaises(df, g, l) ==
    \E i \in 1..Len(Rows(df)) : IsStr(Rows(df)[i][g]) \/ IsStr(Rows(df)[i][l])

filter_stocklot_for_client(stock, grouped) ==
    LET item_family_col_stocklot == find_matching_column(Columns(stock), kw_family)
        grammage_col_stocklot    == find_matching_column(Columns(stock), kw_grammage)
        laize_col_stocklot       == find_matching_column(Columns(stock), kw_laize)
    IN
    IF ~AllFound(<<item_family_col_stocklot, grammage_col_stocklot,
                   laize_col_stocklot>>)
    THEN <<None, <<"Required columns not found in stocklot file.">>>>
    ELSE
    LET f == ColIndex(stock, item_family_col_stocklot)
        g == ColIndex(stock, grammage_col_stocklot)
        l == ColIndex(stock, laize_col_stocklot)
        grammage_min == ColumnsWith(Columns(grouped), <<"g", "r", "a", "m", "m", "a", "g", "e", " ", "m", "i", "n">>)
        grammage_max == ColumnsWith(Columns(grouped), <<"g", "r", "a", "m", "m", "a", "g", "e", " ", "m", "a", "x">>)
        laize_min    == ColumnsWith(Columns(grouped), <<"l", "a", "i", "z", "e", " ", "m", "i", "n">>)
        laize_max    == ColumnsWith(Columns(grouped), <<"l", "a", "i", "z", "e", " ", "m", "a", "x">>)
    IN
    \* the loop body runs once per row of grouped_needs; [..][0] raises
    \* IndexError on an empty list, and the except clause returns None
    IF /\ Rows(grouped) # <<>>
       /\ \/ grammage_min = <<>> \/ grammage_max = <<>>
          \/ laize_min = <<>>    \/ laize_max = <<>>
          \/ ComparisonRaises(stock, g, l)
    THEN <<None, <<"Error filtering stocklot">>>>
    ELSE
    LET df_filt(row) ==
            SelectSeq(Rows(stock), LAMBDA r :
                mask(r[f], r[g], r[l], row[1],
                     row[ColIndex(grouped, grammage_min[1])],
                     row[ColIndex(grouped, grammage_max[1])],
                     row[ColIndex(grouped, laize_min[1])],
                     row[ColIndex(grouped, laize_max[1])]))
        filtered_results == [i \in 1..Len(Rows(grouped)) |-> df_filt(Rows(grouped)[i])]
    IN <<concat_or_none(filtered_results, Columns(stock)), <<>>>>

\* DataFrame.empty
IsEmpty(df) == Rows(df) = <<>>

----------------------------------------------------------------------------
(* classify_needs_by_priority *)

BucketNames == <<"Urgent", "Less Urgent", "Last Priority", "General">>

\* a plausible slip: the General bucket excludes only the "urgent" rows
general_pattern_urgent_only(text) ==
    ~Contains(<<"u", "r", "g", "e", "n", "t">>, text)

\* ~str.contains("urgent|less urgent|last priority") on the lower-cased text
general_pattern(text) ==
    ~(\/ Contains(<<"u", "r", "g", "e", "n", "t">>, text)
      \/ Contains(<<"l", "e", "s", "s", " ", "u", "r", "g", "e", "n", "t">>, text)
      \/ Contains(<<"l", "a", "s", "t", " ", "p", "r", "i", "o", "r", "i", "t", "y">>, text))

classify_needs_by_priority(df) ==
    LET priority_col == find_matching_column(Columns(df), kw_priority)
    IN
    IF priority_col = None
    THEN <<None, <<"Priority column not found in client needs file.">>>>
    ELSE
    LET p == ColIndex(df, priority_col)
    IN
    \* .str on a column holding no text raises AttributeError; a mask with a
    \* missing value raises ValueError; both end in the except clause
    IF \E i \in 1..Len(Rows(df)) : ~IsStr(Rows(df)[i][p])
    THEN <<None, <<"Error classifying needs by priority">>>>
    ELSE
    LET text(r) == lower(r[p][2])
        sel(Test(_)) == DataFrame(Columns(df), SelectSeq(Rows(df), Test))
    IN
    << << sel(LAMBDA r : Contains(<<"u", "r", "g", "e", "n", "t">>, text(r))),
          sel(LAMBDA r : Contains(<<"l", "e", "s", "s", " ", "u", "r", "g", "e", "n", "t">>, text(r))),
          sel(LAMBDA r : Contains(<<"l", "a", "s", "t", " ", "p", "r", "i", "o", "r", "i", "t", "y">>, text(r))),
          sel(LAMBDA r : general_pattern(text(r))) >>,
       <<>> >>

----------------------------------------------------------------------------
(* main: one script run per interaction *)

\* the distinct values of a sequence in order of first appearance
RECURSIVE FirstSeen(_)
FirstSeen(cells) ==
    IF cells = <<>> THEN <<>>
    ELSE LET rest == FirstSeen(SubSeq(cells, 1, Len(cells) - 1))
             last == cells[Len(cells)]
         IN IF \E i \in 1..Len(rest) : rest[i] = last THEN rest
            ELSE Append(rest, last)

\* a plausible slip: the column is iterated without .unique()
every_value(cells) == cells

\* Series.unique()
unique(cells) == FirstSeen(cells)

\* needs_df[client_col].unique()
client_names_of(needs_df, client_col) ==
    unique([i \in 1..Len(Rows(needs_df)) |->
               Rows(needs_df)[i][ColIndex(needs_df, client_col)]])

\* f"{client_name}-ROXAF-{label}.xlsx"
FileName(name, label) == <<name, "-ROXAF-", label, ".xlsx">>

\* a plausible slip: the ranges are aggregated from the rows of the bucket
needs_of_bucket(all_needs, needs_df) == needs_df

\* the table handed to group_client_needs_by_item_family inside the loops
needs_for_grouping(all_needs, needs_df) == all_needs

\* a plausible slip: `break` where the code says `continue`
break_loop(pos, n) == n + 1

\* `continue`: the loop goes on with the next client
continue_loop(pos, n) == pos + 1

Waiting == pc \in {"idle", "done"}

\* the locals of a fresh script run
FreshRun ==
    /\ client_name' = None
    /\ grouped_needs' = None
    /\ df_filtered' = None
    /\ classified_needs' = None
    /\ bucket_pos' = 0
    /\ client_pos' = 0
    /\ files_to_download' = <<>>
    /\ download_buttons' = <<>>
    /\ visited' = <<>>

ResolverIdle == UNCHANGED <<df_columns, keywords, col_found>>

\* the single-client match of a run: aggregate, then match when aggregation
\* returned a table; <<grouped_needs, df_filtered, messages>>
MatchClient(needs, stock, name) ==
    LET g == group_client_needs_by_item_family(needs, name)
    IN IF Value(g) = None THEN <<None, None, Reported(g)>>
       ELSE LET m == filter_stocklot_for_client(stock, Value(g))
            IN <<Value(g), Value(m), Reported(g) \o Reported(m)>>

HasMatch(df) == df # None /\ ~IsEmpty(df)

UploadStocklot(t) ==
    /\ Waiting /\ df_stocklot = None
    /\ df_stocklot' = t
    /\ pc' = "idle" /\ errors' = <<>>
    /\ FreshRun /\ ResolverIdle
    /\ UNCHANGED df_client_needs

UploadClientNeeds(t) ==
    /\ Waiting /\ df_client_needs = None
    /\ df_client_needs' = t
    /\ pc' = "idle" /\ errors' = <<>>
    /\ FreshRun /\ ResolverIdle
    /\ UNCHANGED df_stocklot

\* the uploaded files are removed: the rerun leaves both globals None
RemoveUploads ==
    /\ Waiting
    /\ df_stocklot # None \/ df_client_needs # None
    /\ df_stocklot' = None /\ df_client_needs' = None
    /\ pc' = "idle" /\ errors' = <<>>
    /\ FreshRun /\ ResolverIdle

\* "Manual Filter" pressed with `name` in the text input
ManualFilter(name) ==
    /\ Waiting
    /\ pc' = "done"
    /\ ResolverIdle
    /\ UNCHANGED <<df_stocklot, df_client_needs>>
    /\ classified_needs' = None /\ bucket_pos' = 0 /\ client_pos' = 0
    /\ files_to_download' = <<>> /\ visited' = <<>>
    /\ IF df_stocklot = None \/ df_client_needs = None
       THEN /\ errors' = <<"Please upload both files first.">>
            /\ client_name' = None /\ grouped_needs' = None
            /\ df_filtered' = None /\ download_buttons' = <<>>
       ELSE IF name = <<>>
       THEN /\ errors' = <<"Please enter a client name.">>
            /\ client_name' = None /\ grouped_needs' = None
            /\ df_filtered' = None /\ download_buttons' = <<>>
       ELSE \E m \in {MatchClient(df_client_needs, df_stocklot, Str(name))} :
               /\ client_name' = Str(name)
               /\ grouped_needs' = m[1]
               /\ df_filtered' = m[2]
               /\ IF m[1] = None
                  THEN /\ errors' = Append(m[3], "No needs found")
                       /\ download_buttons' = <<>>
                  ELSE IF ~HasMatch(m[2])
                  THEN /\ errors' = Append(m[3], "No matching stocklots found")
                       /\ download_buttons' = <<>>
                  ELSE /\ errors' = m[3]
                       /\ download_buttons' =
                              << <<0, m[2], FileName(Str(name), "Manual")>> >>

\* the bucket visited and its clients
needs_df == classified_needs[bucket_pos]
client_names ==
    client_names_of(needs_df, find_matching_column(Columns(df_client_needs), kw_client))

LoopIdle ==
    /\ ResolverIdle
    /\ UNCHANGED <<df_stocklot, df_client_needs, classified_needs>>

\* "Auto Filter by Priority" pressed: up to the head of the bucket loop
AutoFilter ==
    /\ Waiting
    /\ ResolverIdle
    /\ UNCHANGED <<df_stocklot, df_client_needs>>
    /\ client_name' = None /\ grouped_needs' = None /\ df_filtered' = None
    /\ client_pos' = 0 /\ files_to_download' = <<>> /\ download_buttons' = <<>>
    /\ visited' = <<>>
    /\ IF df_stocklot = None \/ df_client_needs = None
       THEN /\ errors' = <<"Please upload both files first.">>
            /\ classified_needs' = None /\ bucket_pos' = 0 /\ pc' = "done"
       ELSE \E c \in {classify_needs_by_priority(df_client_needs)} :
               IF Value(c) = None
               THEN /\ errors' = Append(Reported(c),
                          "Error: Priority column not found in client needs file.")
                    /\ classified_needs' = None /\ bucket_pos' = 0 /\ pc' = "done"
               ELSE /\ errors' = <<>>
                    /\ classified_needs' = Value(c)
                    /\ bucket_pos' = 1
                    /\ pc' = "auto_bucket"

\* head of `for priority, needs_df in classified_needs.items()`
AutoBucket ==
    /\ pc = "auto_bucket"
    /\ LoopIdle
    /\ UNCHANGED <<client_name, grouped_needs, df_filtered, files_to_download,
                   download_buttons, visited, bucket_pos>>
    /\ IF bucket_pos > Len(BucketNames)
       THEN /\ pc' = "auto_zip" /\ UNCHANGED <<client_pos, errors>>
       ELSE IF find_matching_column(Columns(df_client_needs), kw_client) = None
       THEN /\ errors' = Append(errors,
                  "Error: Client column not found in client needs file.")
            /\ pc' = "auto_zip" /\ UNCHANGED client_pos
       ELSE /\ client_pos' = 1 /\ pc' = "auto_client" /\ UNCHANGED errors

\* one pass of `for client_name in client_names` in Auto Filter
AutoClient ==
    /\ pc = "auto_client"
    /\ client_pos <= Len(client_names)
    /\ LoopIdle
    /\ UNCHANGED <<pc, bucket_pos, download_buttons>>
    /\ \E name \in {client_names[client_pos]} :
       \E m \in {MatchClient(needs_for_grouping(df_client_needs, needs_df),
                              df_stocklot, name)} :
          /\ client_name' = name
          /\ grouped_needs' = m[1]
          /\ df_filtered' = IF m[1] = None THEN df_filtered ELSE m[2]
          /\ errors' = errors \o m[3]
          /\ visited' = Append(visited, <<BucketNames[bucket_pos], name>>)
          /\ IF HasMatch(m[2])
             THEN /\ files_to_download' = Append(files_to_download,
                         <<m[2], FileName(name, BucketNames[bucket_pos])>>)
                  /\ client_pos' = client_pos + 1
             ELSE /\ files_to_download' = files_to_download
                  /\ client_pos' = continue_loop(client_pos, Len(client_names))

\* the client loop of a bucket is exhausted
AutoBucketEnd ==
    /\ pc = "auto_client"
    /\ client_pos > Len(client_names)
    /\ LoopIdle
    /\ bucket_pos' = bucket_pos + 1
    /\ pc' = "auto_bucket"
    /\ UNCHANGED <<client_name, grouped_needs, df_filtered, client_pos,
                   files_to_download, download_buttons, visited, errors>>

\* "Bulk Download Option": one button for the archive of the accumulated files
AutoZip ==
    /\ pc = "auto_zip"
    /\ LoopIdle
    /\ download_buttons' =
          IF files_to_download # <<>>
          THEN << <<0, [i \in 1..Len(files_to_download) |-> files_to_download[i][2]],
                    "Filtered_Files.zip">> >>
          ELSE <<>>
    /\ pc' = "done"
    /\ UNCHANGED <<client_name, grouped_needs, df_filtered, bucket_pos, client_pos,
                   files_to_download, visited, errors>>

\* "Check Available Selections" pressed: up to the head of the bucket loop
CheckSelections ==
    /\ Waiting
    /\ ResolverIdle
    /\ UNCHANGED <<df_stocklot, df_client_needs>>
    /\ client_name' = None /\ grouped_needs' = None /\ df_filtered' = None
    /\ client_pos' = 0 /\ files_to_download' = <<>> /\ download_buttons' = <<>>
    /\ visited' = <<>>
    /\ IF df_stocklot = None \/ df_client_needs = None
       THEN /\ errors' = <<"Please upload both files first.">>
            /\ classified_needs' = None /\ bucket_pos' = 0 /\ pc' = "done"
       ELSE \E c \in {classify_needs_by_priority(df_client_needs)} :
               IF Value(c) = None
               THEN /\ errors' = Append(Reported(c),
                          "Error: Priority column not found in client needs file.")
                    /\ classified_needs' = None /\ bucket_pos' = 0 /\ pc' = "done"
               ELSE IF find_matching_column(Columns(df_client_needs), kw_client) = None
               THEN /\ errors' = <<"Error: Client column not found in client needs file.">>
                    /\ classified_needs' = Value(c) /\ bucket_pos' = 0 /\ pc' = "done"
               ELSE /\ errors' = <<>>
                    /\ classified_needs' = Value(c)
                    /\ bucket_pos' = 1
                    /\ pc' = "check_bucket"

\* head of the bucket loop of Check Available Selections
CheckBucket ==
    /\ pc = "check_bucket"
    /\ LoopIdle
    /\ UNCHANGED <<client_name, grouped_needs, df_filtered, files_to_download,
                   download_buttons, visited, bucket_pos, errors>>
    /\ IF bucket_pos > Len(BucketNames)
       THEN pc' = "done" /\ UNCHANGED client_pos
       ELSE client_pos' = 1 /\ pc' = "check_client"

\* one pass of `for idx, client_name in enumerate(client_names)`
CheckClient ==
    /\ pc = "check_client"
    /\ client_pos <= Len(client_names)
    /\ LoopIdle
    /\ UNCHANGED <<pc, bucket_pos, files_to_download>>
    /\ \E name \in {client_names[client_pos]}, idx \in {client_pos - 1} :
       \E m \in {MatchClient(needs_for_grouping(df_client_needs, needs_df),
                              df_stocklot, name)} :
          /\ client_name' = name
          /\ grouped_needs' = m[1]
          /\ df_filtered' = IF m[1] = None THEN df_filtered ELSE m[2]
          /\ errors' = errors \o m[3]
          /\ visited' = Append(visited, <<BucketNames[bucket_pos], name>>)
          /\ IF HasMatch(m[2])
             THEN /\ download_buttons' = Append(download_buttons,
                         <<idx % 2, m[2], FileName(name, BucketNames[bucket_pos])>>)
                  /\ client_pos' = client_pos + 1
             ELSE /\ download_buttons' = download_buttons
                  /\ client_pos' = continue_loop(client_pos, Len(client_names))

CheckBucketEnd ==
    /\ pc = "check_client"
    /\ client_pos > Len(client_names)
    /\ LoopIdle
    /\ bucket_pos' = bucket_pos + 1
    /\ pc' = "check_bucket"
    /\ UNCHANGED <<client_name, grouped_needs, df_filtered, client_pos,
                   files_to_download, download_buttons, visited, errors>>

----------------------------------------------------------------------------
(* Inputs: spreadsheets within bounds *)

MaxCols      == 3   \* columns of a header handed to find_matching_column
MaxAggRows   == 2   \* rows of a client needs table in SpecAggregate
MaxClsRows   == 2   \* rows of a client needs table in SpecClassify
MaxNeedRows  == 2   \* rows of a client needs table in SpecManual
MaxLots      == 2   \* rows of a stocklot table in SpecManual
MaxBatchRows == 2   \* rows of a client needs table in Spec

SeqsUpTo(S, n) == UNION {[1..k -> S] : k \in 0..n}

\* A sheet layout is a sequence of <<column name, field>>; a record is the
\* tuple of a row's fields.  Field 0 is the row number (a lot number).
Sheet(layout, recs) ==
    DataFrame([i \in 1..Len(layout) |-> layout[i][1]],
              [r \in 1..Len(recs) |->
                  [i \in 1..Len(layout) |->
                      IF layout[i][2] = 0 THEN Num(r) ELSE recs[r][layout[i][2]]]])

Sheets(layouts, recs, n) ==
    {Sheet(layout, rs) : layout \in layouts, rs \in SeqsUpTo(recs, n)}

\* client needs: fields <<client, item family, grammage, laize, priority>>
NeedsGrammage ==
    << <<<<"C", "l", "i", "e", "n", "t">>, 1>>, <<<<"I", "t", "e", "m", " ", "F", "a", "m", "i", "l", "y">>, 2>>, <<<<"G", "r", "a", "m", "m", "a", "g", "e">>, 3>>,
       <<<<"L", "a", "i", "z", "e">>, 4>>, <<<<"P", "r", "i", "o", "r", "i", "t", "y">>, 5>> >>
NeedsShuffled ==
    << <<<<"P", "r", "i", "o", "r", "i", "t", "y">>, 5>>, <<<<"L", "A", "I", "Z", "E">>, 4>>, <<<<"G", "R", "A", "M", "M", "A", "G", "E">>, 3>>,
       <<<<"F", "a", "m", "i", "l", "y">>, 2>>, <<<<"C", "u", "s", "t", "o", "m", "e", "r">>, 1>> >>
NeedsWeight ==
    << <<<<"C", "l", "i", "e", "n", "t">>, 1>>, <<<<"I", "t", "e", "m", " ", "F", "a", "m", "i", "l", "y">>, 2>>, <<<<"w", "e", "i", "g", "h", "t">>, 3>>,
       <<<<"w", "i", "d", "t", "h">>, 4>>, <<<<"P", "r", "i", "o", "r", "i", "t", "y">>, 5>> >>
NeedsNoWidth ==
    << <<<<"C", "l", "i", "e", "n", "t">>, 1>>, <<<<"I", "t", "e", "m", " ", "F", "a", "m", "i", "l", "y">>, 2>>, <<<<"G", "r", "a", "m", "m", "a", "g", "e">>, 3>>,
       <<<<"P", "r", "i", "o", "r", "i", "t", "y">>, 5>> >>
NeedsNoPriority ==
    << <<<<"C", "l", "i", "e", "n", "t">>, 1>>, <<<<"I", "t", "e", "m", " ", "F", "a", "m", "i", "l", "y">>, 2>>, <<<<"G", "r", "a", "m", "m", "a", "g", "e">>, 3>>,
       <<<<"L", "a", "i", "z", "e">>, 4>> >>
NeedsNoClient ==
    << <<<<"I", "t", "e", "m", " ", "F", "a", "m", "i", "l", "y">>, 2>>, <<<<"G", "r", "a", "m", "m", "a", "g", "e">>, 3>>, <<<<"L", "a", "i", "z", "e">>, 4>>,
       <<<<"P", "r", "i", "o", "r", "i", "t", "y">>, 5>> >>

\* stocklot: fields <<item family, grammage, laize>>
StockGrammage ==
    << <<<<"L", "o", "t">>, 0>>, <<<<"I", "t", "e", "m", " ", "F", "a", "m", "i", "l", "y">>, 1>>, <<<<"G", "r", "a", "m", "m", "a", "g", "e">>, 2>>, <<<<"L", "a", "i", "z", "e">>, 3>> >>
StockWeight ==
    << <<<<"L", "o", "t">>, 0>>, <<<<"W", "i", "d", "t", "h">>, 3>>, <<<<"W", "e", "i", "g", "h", "t", " ", "(", "g", "s", "m", ")">>, 2>>, <<<<"F", "a", "m", "i", "l", "y">>, 1>> >>
StockNoLaize ==
    << <<<<"L", "o", "t">>, 0>>, <<<<"I", "t", "e", "m", " ", "F", "a", "m", "i", "l", "y">>, 1>>, <<<<"G", "r", "a", "m", "m", "a", "g", "e">>, 2>> >>

Acme  == <<"A", "c", "m", "e">>
Bolt  == <<"B", "o", "l", "t">>
Ghost == <<"G", "h", "o", "s", "t">>
Kraft == <<"K", "r", "a", "f", "t">>
Board == <<"B", "o", "a", "r", "d">>

PrioUrgent == Str(<<"U", "r", "g", "e", "n", "t">>)
PrioLess   == Str(<<"l", "e", "s", "s", " ", "u", "r", "g", "e", "n", "t", " ", "-", " ", "r", "e", "o", "r", "d", "e", "r">>)
PrioLast   == Str(<<"L", "a", "s", "t", " ", "P", "r", "i", "o", "r", "i", "t", "y">>)
PrioNormal == Str(<<"n", "o", "r", "m", "a", "l">>)

\* SpecResolve
HeaderNames ==
    { <<"C", "l", "i", "e", "n", "t">>, <<"C", "u", "s", "t", "o", "m", "e", "r", " ", "N", "a", "m", "e">>, <<"I", "t", "e", "m", " ", "F", "a", "m", "i", "l", "y">>, <<"I", "t", "e", "m">>, <<"G", "S", "M">>,
      <<"w", "e", "i", "g", "h", "t">>, <<"L", "a", "i", "z", "e">>, <<"P", "r", "i", "o", "r", "i", "t", "y">>, <<"L", "o", "t">> }
Headers ==
    {h \in SeqsUpTo(HeaderNames, MaxCols) :
        \A i, j \in 1..Len(h) : i # j => h[i] # h[j]}
KeywordLists == {kw_client, kw_family, kw_grammage, kw_laize, kw_priority}

\* SpecAggregate
AggRecords ==
    {<<Str(Acme), Str(f), g, l, PrioNormal>> :
        f \in {Kraft, Board},
        g \in {Num(75), Str(<<"9", "0">>), Str(<<"a", "b", "c">>)},
        l \in {Num(100), Str(<<"1", "1", "0">>), Str(<<"n", "/", "a">>)}}
    \cup { <<Str(Acme), NaN, Num(75), Num(100), PrioNormal>>,
           <<Str(Bolt), Str(Kraft), Num(200), Num(50), PrioNormal>> }
AggNeeds == Sheets({NeedsGrammage, NeedsShuffled, NeedsNoWidth}, AggRecords, MaxAggRows)
AggClients == {Str(Acme), Str(Ghost)}

\* SpecClassify
ClsRecords ==
    {<<Str(c), Str(Kraft), Num(75), Num(100), p>> :
        c \in {Acme, Bolt},
        p \in {PrioUrgent, PrioLess, PrioLast, PrioNormal,
               Str(<<"N", "O", "N", "U", "R", "G", "E", "N", "T">>), NaN}}
ClsNeeds == Sheets({NeedsGrammage, NeedsNoPriority}, ClsRecords, MaxClsRows)

\* SpecManual
ManualRecords ==
    { <<Str(Acme), Str(Kraft), Str(<<"7", "5">>), Str(<<"9", "0">>), PrioNormal>>,
      <<Str(Acme), Str(Kraft), Str(<<"9", "0">>), Str(<<"1", "1", "0">>), PrioNormal>>,
      <<Str(Acme), Str(Kraft), Str(<<"a", "b", "c">>), Str(<<"9", "0">>), PrioNormal>>,
      <<Str(Acme), Str(Board), Str(<<"9", "0">>), Str(<<"1", "1", "0">>), PrioNormal>> }
ScenarioRecords ==
    { <<Str(Acme), Str(Kraft), Str(<<"7", "5">>), Str(<<"9", "0">>), PrioNormal>>,
      <<Str(Acme), Str(Kraft), Str(<<"9", "0">>), Str(<<"1", "1", "0">>), PrioNormal>> }
ManualNeeds ==
    Sheets({NeedsGrammage}, ManualRecords, MaxNeedRows)
    \cup Sheets({NeedsWeight, NeedsNoWidth}, ScenarioRecords, MaxNeedRows)
LotRecords ==
    {<<Str(Kraft), Num(80), Num(100)>>, <<Str(Kraft), Num(200), Num(100)>>,
     <<Str(Board), Num(90), Num(110)>>, <<Str(Kraft), Str(<<"n", "/", "a">>), Num(100)>>}
ScenarioLots ==
    {<<Str(Kraft), Num(80), Num(100)>>, <<Str(Kraft), Num(200), Num(100)>>}
ManualStock ==
    Sheets({StockGrammage}, LotRecords, MaxLots)
    \cup Sheets({StockWeight, StockNoLaize}, ScenarioLots, MaxLots)
ManualNames == {Acme, Ghost, <<>>}
SingleNames == {Acme, Ghost}

\* Spec
BatchRecords ==
    { <<Str(Acme), Str(Kraft), Num(75), Num(100), PrioUrgent>>,
      <<Str(Acme), Str(Kraft), Num(90), Num(100), PrioLess>>,
      <<Str(Acme), Str(Kraft), Num(90), Num(100), PrioNormal>>,
      <<NaN, Str(Kraft), Num(75), Num(100), PrioUrgent>> }
    \cup {<<Str(Bolt), Str(Kraft), g, Num(100), p>> :
             g \in {Num(90), Str(<<"a", "b", "c">>)}, p \in {PrioLess, PrioLast}}
PlainRecords ==
    { <<Str(Acme), Str(Kraft), Num(75), Num(100), PrioUrgent>>,
      <<Str(Acme), Str(Kraft), Num(75), Num(100), PrioNormal>>,
      <<Str(Bolt), Str(Kraft), Num(75), Num(100), PrioNormal>> }
BatchNeeds ==
    Sheets({NeedsGrammage}, BatchRecords, MaxBatchRows)
    \cup Sheets({NeedsWeight, NeedsNoWidth, NeedsNoPriority, NeedsNoClient},
                PlainRecords, MaxBatchRows)
BatchStock ==
    { Sheet(StockGrammage, << <<Str(Kraft), Num(80), Num(100)>>,
                              <<Str(Kraft), Num(200), Num(100)>> >>),
      Sheet(StockWeight, << <<Str(Kraft), Num(90), Num(100)>>,
                            <<Str(Kraft), Num(75), Num(100)>> >>),
      Sheet(StockNoLaize, << <<Str(Kraft), Num(80), Num(100)>> >>) }

----------------------------------------------------------------------------
(* Specifications *)

NoRun ==
    /\ client_name = None /\ grouped_needs = None /\ df_filtered = None
    /\ classified_needs = None /\ bucket_pos = 0 /\ client_pos = 0
    /\ files_to_download = <<>> /\ download_buttons = <<>>
    /\ visited = <<>> /\ errors = <<>>

NoResolve == df_columns = <<>> /\ keywords = <<>> /\ col_found = None

\* the application: nothing uploaded, no button pressed
Init ==
    /\ NoResolve /\ NoRun
    /\ df_stocklot = None /\ df_client_needs = None
    /\ pc = "idle"

Next ==
    \/ \E t \in BatchStock : UploadStocklot(t)
    \/ \E t \in BatchNeeds : UploadClientNeeds(t)
    \/ RemoveUploads
    \/ \E name \in ManualNames : ManualFilter(name)
    \/ AutoFilter
    \/ AutoBucket
    \/ AutoClient
    \/ AutoBucketEnd
    \/ AutoZip
    \/ CheckSelections
    \/ CheckBucket
    \/ CheckClient
    \/ CheckBucketEnd

Spec == Init /\ [][Next]_vars

\* find_matching_column alone
InitResolve ==
    /\ df_columns \in Headers
    /\ keywords \in KeywordLists
    /\ col_found = None
    /\ NoRun
    /\ df_stocklot = None /\ df_client_needs = None
    /\ pc = "call"

Resolve ==
    /\ pc = "call"
    /\ col_found' = find_matching_column(df_columns, keywords)
    /\ pc' = "returned"
    /\ UNCHANGED <<df_columns, keywords, df_stocklot, df_client_needs, client_name,
                   grouped_needs, df_filtered, classified_needs, bucket_pos,
                   client_pos, files_to_download, download_buttons, visited, errors>>

SpecResolve == InitResolve /\ [][Resolve]_vars

\* group_client_needs_by_item_family alone
InitAggregate ==
    /\ NoResolve
    /\ df_stocklot = None
    /\ df_client_needs \in AggNeeds
    /\ client_name \in AggClients
    /\ grouped_needs = None /\ df_filtered = None
    /\ classified_needs = None /\ bucket_pos = 0 /\ client_pos = 0
    /\ files_to_download = <<>> /\ download_buttons = <<>>
    /\ visited = <<>> /\ errors = <<>>
    /\ pc = "call"

Aggregate ==
    /\ pc = "call"
    /\ LET g == group_client_needs_by_item_family(df_client_needs, client_name)
       IN grouped_needs' = Value(g) /\ errors' = Reported(g)
    /\ pc' = "returned"
    /\ ResolverIdle
    /\ UNCHANGED <<df_stocklot, df_client_needs, client_name, df_filtered,
                   classified_needs, bucket_pos, client_pos, files_to_download,
                   download_buttons, visited>>

SpecAggregate == InitAggregate /\ [][Aggregate]_vars

\* classify_needs_by_priority alone
InitClassify ==
    /\ NoResolve /\ NoRun
    /\ df_stocklot = None
    /\ df_client_needs \in ClsNeeds
    /\ pc = "call"

Classify ==
    /\ pc = "call"
    /\ LET c == classify_needs_by_priority(df_client_needs)
       IN classified_needs' = Value(c) /\ errors' = Reported(c)
    /\ pc' = "returned"
    /\ ResolverIdle
    /\ UNCHANGED <<df_stocklot, df_client_needs, client_name, grouped_needs,
                   df_filtered, bucket_pos, client_pos, files_to_download,
                   download_buttons, visited>>

SpecClassify == InitClassify /\ [][Classify]_vars

\* the single-client match: both files uploaded, "Manual Filter" pressed
InitManual ==
    /\ NoResolve /\ NoRun
    /\ df_stocklot \in ManualStock
    /\ df_client_needs \in ManualNeeds
    /\ pc = "idle"

NextManual == \E name \in SingleNames : pc = "idle" /\ ManualFilter(name)

SpecManual == InitManual /\ [][NextManual]_vars

----------------------------------------------------------------------------
(* Claims *)

Min(S) == CHOOSE x \in S : \A y \in S : x <= y
Max(S) == CHOOSE x \in S : \A y \in S : x >= y

\* position of the column of the client needs table that a role resolves to
NeedsCol(kws) ==
    ColIndex(df_client_needs, find_matching_column(Columns(df_client_needs), kws))
StockCol(kws) ==
    ColIndex(df_stocklot, find_matching_column(Columns(df_stocklot), kws))
NeedsResolve(roles) ==
    \A i \in 1..Len(roles) :
        find_matching_column(Columns(df_client_needs), roles[i]) # None
StockResolves ==
    \A kws \in {kw_family, kw_grammage, kw_laize} :
        find_matching_column(Columns(df_stocklot), kws) # None

\* the rows of `name` in the client needs table whose grammage and laize are numeric
ValidNeeds(name) ==
    {i \in 1..Len(Rows(df_client_needs)) :
        LET r == Rows(df_client_needs)[i]
        IN /\ r[NeedsCol(kw_client)] = name
           /\ to_numeric(r[NeedsCol(kw_grammage)]) # NaN
           /\ to_numeric(r[NeedsCol(kw_laize)]) # NaN}
NeedsOfFamily(name, family) ==
    {i \in ValidNeeds(name) : Rows(df_client_needs)[i][NeedsCol(kw_family)] = family}
NeedValues(rows, kws) ==
    {to_numeric(Rows(df_client_needs)[i][NeedsCol(kws)])[2] : i \in rows}

\* C9: find_matching_column returns the first column, in table order, whose
\* lower-cased name contains one of the lower-cased keywords, and None when no
\* column does; when exactly one column matches, every reordering of the
\* columns resolves to the same column.
C9_FirstMatchingColumn ==
    pc = "returned" =>
        LET hits == {i \in 1..Len(df_columns) :
                        \E k \in 1..Len(keywords) :
                            Contains(lower(keywords[k]), lower(df_columns[i]))}
        IN /\ hits = {} => col_found = None
           /\ hits # {} => col_found = df_columns[Min(hits)]
           /\ Cardinality(hits) = 1 =>
                 \A f \in Permutations(1..Len(df_columns)) :
                     find_matching_column([i \in 1..Len(df_columns) |-> df_columns[f[i]]],
                                          keywords) = col_found

\* C9 witness: two columns match, and the one returned is not the first column
C9_Witness ==
    /\ pc = "returned"
    /\ col_found # None
    /\ col_found # df_columns[1]
    /\ Cardinality({i \in 1..Len(df_columns) : KeywordHit(df_columns[i], keywords)}) >= 2

\* C2: the aggregator emits exactly one range per distinct item family among
\* the client's rows with numeric grammage and laize; its bounds are the
\* minimum and maximum of grammage and of laize over exactly those rows, so
\* min <= max in every range.
C2_OneRangePerFamily ==
    (pc = "returned" /\ grouped_needs # None) =>
        LET R == Rows(grouped_needs)
            families == {Rows(df_client_needs)[i][NeedsCol(kw_family)] :
                            i \in ValidNeeds(client_name)} \ {NaN}
        IN /\ \A i, j \in 1..Len(R) : i # j => R[i][1] # R[j][1]
           /\ {R[i][1] : i \in 1..Len(R)} = families
           /\ \A i \in 1..Len(R) :
                 LET rows == NeedsOfFamily(client_name, R[i][1])
                     W == NeedValues(rows, kw_grammage)
                     L == NeedValues(rows, kw_laize)
                 IN /\ R[i][2] = Num(Min(W)) /\ R[i][3] = Num(Max(W))
                    /\ R[i][4] = Num(Min(L)) /\ R[i][5] = Num(Max(L))
                    /\ R[i][2][2] <= R[i][3][2]
                    /\ R[i][4][2] <= R[i][5][2]

\* C2 witness: a range was emitted while a row of the client was dropped by
\* the numeric coercion
C2_Witness ==
    /\ pc = "returned" /\ grouped_needs # None
    /\ Rows(grouped_needs) # <<>>
    /\ \E i \in 1..Len(Rows(df_client_needs)) :
          /\ Rows(df_client_needs)[i][NeedsCol(kw_client)] = client_name
          /\ i \notin ValidNeeds(client_name)

\* C4: a row is in Urgent iff its lower-cased priority text contains "urgent",
\* in Less Urgent iff it contains "less urgent", in Last Priority iff it
\* contains "last priority", in General iff it contains none of the three; so
\* General shares no row with another bucket and a "less urgent" row is in
\* both Urgent and Less Urgent.
C4_BucketMembership ==
    (pc = "returned" /\ classified_needs # None) =>
        LET rows == Rows(df_client_needs)
            text(r) == lower(r[NeedsCol(kw_priority)][2])
            has(r, pattern) == Contains(pattern, text(r))
            In(r, b) == \E j \in 1..Len(Rows(classified_needs[b])) :
                            Rows(classified_needs[b])[j] = r
            Count(Test(_)) == Cardinality({i \in 1..Len(rows) : Test(rows[i])})
        IN /\ \A i \in 1..Len(rows) :
                 LET r == rows[i]
                 IN /\ In(r, 1) <=> has(r, <<"u", "r", "g", "e", "n", "t">>)
                    /\ In(r, 2) <=> has(r, <<"l", "e", "s", "s", " ", "u", "r", "g", "e", "n", "t">>)
                    /\ In(r, 3) <=> has(r, <<"l", "a", "s", "t", " ", "p", "r", "i", "o", "r", "i", "t", "y">>)
                    /\ In(r, 4) <=> ~(\/ has(r, <<"u", "r", "g", "e", "n", "t">>) \/ has(r, <<"l", "e", "s", "s", " ", "u", "r", "g", "e", "n", "t">>)
                                      \/ has(r, <<"l", "a", "s", "t", " ", "p", "r", "i", "o", "r", "i", "t", "y">>))
                    /\ has(r, <<"l", "e", "s", "s", " ", "u", "r", "g", "e", "n", "t">>) => In(r, 1) /\ In(r, 2) /\ ~In(r, 4)
                    /\ In(r, 4) => ~In(r, 1) /\ ~In(r, 2) /\ ~In(r, 3)
           /\ Len(Rows(classified_needs[1])) = Count(LAMBDA r : has(r, <<"u", "r", "g", "e", "n", "t">>))
           /\ Len(Rows(classified_needs[2])) = Count(LAMBDA r : has(r, <<"l", "e", "s", "s", " ", "u", "r", "g", "e", "n", "t">>))
           /\ Len(Rows(classified_needs[3])) = Count(LAMBDA r : has(r, <<"l", "a", "s", "t", " ", "p", "r", "i", "o", "r", "i", "t", "y">>))
           /\ Len(Rows(classified_needs[1])) + Len(Rows(classified_needs[4]))
                 + Count(LAMBDA r : has(r, <<"l", "a", "s", "t", " ", "p", "r", "i", "o", "r", "i", "t", "y">>) /\ ~has(r, <<"u", "r", "g", "e", "n", "t">>))
              = Len(rows)

\* C4 witness: a "less urgent" row sits in Urgent and in Less Urgent while a
\* "last priority" row sits in Last Priority only
C4_Witness ==
    /\ pc = "returned" /\ classified_needs # None
    /\ \E r \in {Rows(df_client_needs)[i] : i \in 1..Len(Rows(df_client_needs))} :
          /\ r[NeedsCol(kw_priority)] = PrioLess
          /\ \E j \in 1..Len(Rows(classified_needs[1])) : Rows(classified_needs[1])[j] = r
          /\ \E j \in 1..Len(Rows(classified_needs[2])) : Rows(classified_needs[2])[j] = r
    /\ Len(Rows(classified_needs[3])) = 1
    /\ Len(Rows(classified_needs[4])) = 0

\* the clients of the rows whose priority text satisfies Test, in order of
\* first appearance
FirstSeenClients(Test(_)) ==
    LET rows == Rows(df_client_needs)
        c == NeedsCol(kw_client)
        p == NeedsCol(kw_priority)
        firsts == {i \in 1..Len(rows) :
                      /\ Test(lower(rows[i][p][2]))
                      /\ \A j \in 1..(i - 1) :
                            Test(lower(rows[j][p][2])) => rows[j][c] # rows[i][c]}
        ordered[k \in 0..Cardinality(firsts)] ==
            IF k = 0 THEN <<>>
            ELSE Append(ordered[k - 1],
                        rows[Min({i \in firsts :
                                     Cardinality({j \in firsts : j < i}) = k - 1})][c])
    IN ordered[Cardinality(firsts)]

TagBucket(label, names) == [i \in 1..Len(names) |-> <<label, names[i]>>]

\* the (bucket, client) pairs in the order Urgent, Less Urgent, Last Priority,
\* General, each bucket's clients in order of first appearance
ExpectedVisits ==
    TagBucket("Urgent", FirstSeenClients(LAMBDA t : Contains(<<"u", "r", "g", "e", "n", "t">>, t)))
    \o TagBucket("Less Urgent", FirstSeenClients(LAMBDA t : Contains(<<"l", "e", "s", "s", " ", "u", "r", "g", "e", "n", "t">>, t)))
    \o TagBucket("Last Priority", FirstSeenClients(LAMBDA t : Contains(<<"l", "a", "s", "t", " ", "p", "r", "i", "o", "r", "i", "t", "y">>, t)))
    \o TagBucket("General",
                 FirstSeenClients(LAMBDA t : ~(\/ Contains(<<"u", "r", "g", "e", "n", "t">>, t)
                                               \/ Contains(<<"l", "a", "s", "t", " ", "p", "r", "i", "o", "r", "i", "t", "y">>, t))))

\* the single-client match result of a client on the uploaded tables
SingleMatch(name) == MatchClient(df_client_needs, df_stocklot, name)[2]

\* the outputs expected for a sequence of visited pairs
RECURSIVE ExpectedFiles(_)
ExpectedFiles(pairs) ==
    IF pairs = <<>> THEN <<>>
    ELSE LET rest == ExpectedFiles(SubSeq(pairs, 1, Len(pairs) - 1))
             last == pairs[Len(pairs)]
         IN IF HasMatch(SingleMatch(last[2]))
            THEN Append(rest, <<SingleMatch(last[2]), FileName(last[2], last[1])>>)
            ELSE rest

InAutoLoop == pc \in {"auto_bucket", "auto_client", "auto_zip"}
InCheckLoop == pc \in {"check_bucket", "check_client"}

\* C5: Auto Filter visits the buckets in the order Urgent, Less Urgent, Last
\* Priority, General and, inside a bucket, each distinct client once in order
\* of first appearance; "{client}-ROXAF-{bucket}.xlsx" is accumulated for a
\* pair iff the client's match result is non-empty, in the visiting order.
C5_VisitOrderAndOutputs ==
    (InAutoLoop /\ NeedsResolve(<<kw_client>>)) =>
        /\ Len(visited) <= Len(ExpectedVisits)
        /\ visited = SubSeq(ExpectedVisits, 1, Len(visited))
        /\ files_to_download = ExpectedFiles(visited)
        /\ pc = "auto_zip" => visited = ExpectedVisits

\* C5 witness: the loop is over, a client was visited in two buckets, two
\* outputs were accumulated and one visited pair gave none
C5_Witness ==
    /\ pc = "auto_zip"
    /\ Len(files_to_download) >= 2
    /\ Len(visited) > Len(files_to_download)
    /\ \E i, j \in 1..Len(visited) : i < j /\ visited[i][2] = visited[j][2]

\* a step of the client loop of Auto Filter on a client whose aggregation or
\* match fails or selects no stocklot row
FailingPass ==
    /\ pc = "auto_client"
    /\ client_pos <= Len(client_names)
    /\ ~HasMatch(SingleMatch(client_names[client_pos]))

\* C6: a failing or empty client of the Auto Filter loop changes no
\* accumulated output and the loop goes on with the next client of the
\* bucket; outputs are only ever appended; and when the loop ends every
\* client of every bucket has been visited, whatever failed on the way.
C6_FailureIsLocal ==
    /\ [][FailingPass =>
            /\ files_to_download' = files_to_download
            /\ pc' = "auto_client"
            /\ bucket_pos' = bucket_pos
            /\ client_pos' = client_pos + 1]_vars
    /\ [][InAutoLoop =>
            /\ Len(files_to_download') >= Len(files_to_download)
            /\ SubSeq(files_to_download', 1, Len(files_to_download)) = files_to_download
            /\ pc' \in {"auto_bucket", "auto_client", "auto_zip", "done"}]_vars
    /\ [][(pc # "auto_zip" /\ pc' = "auto_zip" /\ NeedsResolve(<<kw_client>>)) =>
            /\ bucket_pos' = Len(BucketNames) + 1
            /\ Len(visited') = Len(ExpectedVisits)]_vars

\* C6 witness: the first client visited gave no output, a later one did, and
\* a failure was reported on the way
C6_Witness ==
    /\ pc = "auto_zip"
    /\ Len(visited) >= 2
    /\ ~HasMatch(SingleMatch(visited[1][2]))
    /\ files_to_download # <<>>
    /\ errors # <<>>

\* C10: in Auto Filter and in Check Available Selections every output of a
\* client holds the single-client match result of that client on the whole
\* client needs table, so two outputs of one client have the same rows and
\* differ only in the bucket label of their name.
C10_BucketIndependent ==
    /\ InAutoLoop =>
          \A i \in 1..Len(files_to_download) :
              LET e == files_to_download[i]
              IN /\ e[1] = SingleMatch(e[2][1])
                 /\ \A j \in 1..Len(files_to_download) :
                       files_to_download[j][2][1] = e[2][1] =>
                           /\ files_to_download[j][1] = e[1]
                           /\ i # j => files_to_download[j][2][3] # e[2][3]
    /\ InCheckLoop =>
          \A i \in 1..Len(download_buttons) :
              LET e == download_buttons[i]
              IN /\ e[2] = SingleMatch(e[3][1])
                 /\ \A j \in 1..Len(download_buttons) :
                       download_buttons[j][3][1] = e[3][1] =>
                           /\ download_buttons[j][2] = e[2]
                           /\ i # j => download_buttons[j][3][3] # e[3][3]

\* C10 witness: one client with outputs in two buckets, although its rows in
\* the first bucket alone span a narrower range than all its rows
C10_Witness ==
    /\ pc = "auto_zip"
    /\ \E i, j \in 1..Len(files_to_download) :
          /\ i < j
          /\ files_to_download[i][2][1] = files_to_download[j][2][1]
          /\ files_to_download[i][2][3] # files_to_download[j][2][3]
          /\ Value(filter_stocklot_for_client(df_stocklot,
                 Value(group_client_needs_by_item_family(
                     classified_needs[1], files_to_download[i][2][1]))))
             # files_to_download[i][1]

\* the rows of a match result; a failed match has none
ResultRows == IF df_filtered = None THEN <<>> ELSE Rows(df_filtered)

\* the stocklot row r lies in the range <<family, grammage min, grammage max,
\* laize min, laize max>>, bounds included
InRange(r, range) ==
    /\ r[StockCol(kw_family)] = range[1]
    /\ IsNum(r[StockCol(kw_grammage)]) /\ IsNum(r[StockCol(kw_laize)])
    /\ range[2][2] <= r[StockCol(kw_grammage)][2]
    /\ r[StockCol(kw_grammage)][2] <= range[3][2]
    /\ range[4][2] <= r[StockCol(kw_laize)][2]
    /\ r[StockCol(kw_laize)][2] <= range[5][2]

\* no text in the grammage and laize columns of the stocklot table
NumericStock ==
    \A i \in 1..Len(Rows(df_stocklot)) :
        /\ ~IsStr(Rows(df_stocklot)[i][StockCol(kw_grammage)])
        /\ ~IsStr(Rows(df_stocklot)[i][StockCol(kw_laize)])

LotNumbers(rows) == {rows[i][ColIndex(df_stocklot, <<"L", "o", "t">>)] : i \in 1..Len(rows)}

Matched == pc = "done" /\ client_name # None /\ grouped_needs # None

\* C7: the ranges of the aggregator have distinct families, so no stocklot
\* row is selected by two of them: every row of the match result is a row of
\* the stocklot table and appears once.
C7_NoDuplicateRows ==
    (Matched /\ df_filtered # None) =>
        LET rows == Rows(df_filtered)
        IN /\ \A i, j \in 1..Len(rows) : i # j => rows[i] # rows[j]
           /\ \A i \in 1..Len(rows) :
                 \E k \in 1..Len(Rows(df_stocklot)) : Rows(df_stocklot)[k] = rows[i]
           /\ Len(rows) <= Len(Rows(df_stocklot))
           /\ \A i, j \in 1..Len(Rows(grouped_needs)) :
                 i # j => \A k \in 1..Len(Rows(df_stocklot)) :
                             ~(/\ InRange(Rows(df_stocklot)[k], Rows(grouped_needs)[i])
                               /\ InRange(Rows(df_stocklot)[k], Rows(grouped_needs)[j]))

\* C7 witness: two ranges whose numeric bounds both contain a selected
\* stocklot row, which only the family tells apart
C7_Witness ==
    /\ Matched /\ df_filtered # None
    /\ Len(Rows(grouped_needs)) = 2
    /\ \E k \in 1..Len(Rows(df_filtered)) :
          \A i \in 1..2 :
              InRange(Rows(df_filtered)[k],
                      [Rows(grouped_needs)[i] EXCEPT ![1] =
                          Rows(df_filtered)[k][StockCol(kw_family)]])

\* C1: whenever the stocklot columns resolve, the match result holds exactly
\* the stocklot rows that lie in some range (same family, grammage and laize
\* within the inclusive bounds), concatenated in the order of the ranges.
C1_ExactSelection ==
    (Matched /\ StockResolves /\ NumericStock) =>
        ResultRows =
            Flatten([i \in 1..Len(Rows(grouped_needs)) |->
                        SelectSeq(Rows(df_stocklot),
                                  LAMBDA r : InRange(r, Rows(grouped_needs)[i]))])

\* C3: whatever keyword finds the grammage and the laize column of the client
\* needs table, aggregate followed by match returns exactly the stocklot rows
\* of a needed family that lie inside the range aggregated for that family.
C3_AnyColumnNaming ==
    (/\ pc = "done" /\ client_name # None
     /\ NeedsResolve(<<kw_client, kw_family, kw_grammage, kw_laize>>)
     /\ StockResolves /\ NumericStock) =>
        LotNumbers(ResultRows) =
            LotNumbers(SelectSeq(Rows(df_stocklot), LAMBDA r :
                \E i \in ValidNeeds(client_name) :
                    LET family == Rows(df_client_needs)[i][NeedsCol(kw_family)]
                        rows == NeedsOfFamily(client_name, family)
                    IN InRange(r, <<family,
                                    Num(Min(NeedValues(rows, kw_grammage))),
                                    Num(Max(NeedValues(rows, kw_grammage))),
                                    Num(Min(NeedValues(rows, kw_laize))),
                                    Num(Max(NeedValues(rows, kw_laize)))>>)))

\* the bound columns of the ranges table are found by their fixed labels
RangeColumnsLocated ==
    \A label \in { <<"g", "r", "a", "m", "m", "a", "g", "e", " ", "m", "i", "n">>, <<"g", "r", "a", "m", "m", "a", "g", "e", " ", "m", "a", "x">>, <<"l", "a", "i", "z", "e", " ", "m", "i", "n">>, <<"l", "a", "i", "z", "e", " ", "m", "a", "x">> } :
        ColumnsWith(Columns(grouped_needs), label) # <<>>

\* C8: when no stocklot row lies in any range, in particular when there is no
\* range at all, the match returns an empty table and not the outcome of a
\* failed match.
C8_EmptyIsNotFailure ==
    (/\ Matched /\ StockResolves /\ NumericStock /\ RangeColumnsLocated
     /\ \A i \in 1..Len(Rows(grouped_needs)) :
           \A k \in 1..Len(Rows(df_stocklot)) :
               ~InRange(Rows(df_stocklot)[k], Rows(grouped_needs)[i])) =>
        /\ df_filtered # None
        /\ IsEmpty(df_filtered)

====
